---- MODULE Spec2Model ----
(***************************************************************************)
(* Surface drag controller of PrusaSlicer (src/slic3r/GUI/SurfaceDrag.cpp). *)
(*                                                                         *)
(* Numbers.  Linear parts of transforms are dimensionless integers;        *)
(* translations, positions and distances are integers in units of 0.01 mm, *)
(* so that the squared-distance threshold 1e-4 mm^2 is 1 unit.  The scene   *)
(* and the hits are taken from an integer lattice (axis-aligned normals,   *)
(* frames whose first two axes span a coordinate plane) on which every     *)
(* rotation built by Eigen's FromTwoVectors is a signed permutation matrix *)
(* and every square root is exact.  IEEE NaN is the sentinel NaN, and the   *)
(* arithmetic operators F* propagate it as the FPU does.                   *)
(***************************************************************************)
EXTENDS Integers, Sequences, FiniteSets, TLC

(***************************************************************************)
(* IEEE arithmetic on the lattice                                          *)
(***************************************************************************)
NaN == -999999

IsNaN(x) == x = NaN

FAdd(a, b) == IF IsNaN(a) \/ IsNaN(b) THEN NaN ELSE a + b

FSub(a, b) == IF IsNaN(a) \/ IsNaN(b) THEN NaN ELSE a - b

FMul(a, b) == IF IsNaN(a) \/ IsNaN(b) THEN NaN ELSE a * b

Abs(a) == IF a < 0 THEN 0 - a ELSE a

Sign(a) == IF a > 0 THEN 1 ELSE IF a < 0 THEN 0 - 1 ELSE 0

\* a / b for a quotient that is exact on the lattice; 0/0 is NaN
FDiv(a, b) ==
    IF IsNaN(a) \/ IsNaN(b) THEN NaN
    ELSE IF b = 0 THEN NaN
    ELSE Sign(a) * Sign(b) * (Abs(a) \div Abs(b))

\* a != a is true of NaN alone (line 556)
FNeq(a, b) == IsNaN(a) \/ IsNaN(b) \/ a # b

\* a > b is false whenever an operand is NaN
FGt(a, b) == ~IsNaN(a) /\ ~IsNaN(b) /\ a > b

Max(a, b) == IF a > b THEN a ELSE b

\* sqrt of a perfect square, by bisection below sqrt(2^31); no value for any
\* other number
RECURSIVE SqrtSearch(_, _, _)
SqrtSearch(n, lo, hi) ==
    IF lo >= hi THEN lo
    ELSE LET mid == (lo + hi + 1) \div 2
         IN  IF mid * mid <= n THEN SqrtSearch(n, mid, hi) ELSE SqrtSearch(n, lo, mid - 1)

ISqrt(n) ==
    LET r == SqrtSearch(n, 0, IF n > 46340 THEN 46340 ELSE n)
    IN  IF r * r = n THEN r ELSE CHOOSE x \in {} : TRUE

(***************************************************************************)
(* Vec3d, Matrix3d (a triple of columns), Transform3d                      *)
(***************************************************************************)
UnitX == <<1, 0, 0>>
UnitY == <<0, 1, 0>>
UnitZ == <<0, 0, 1>>
Zero3 == <<0, 0, 0>>
NaN3 == <<NaN, NaN, NaN>>

VAdd(a, b) == [i \in 1..3 |-> FAdd(a[i], b[i])]

VSub(a, b) == [i \in 1..3 |-> FSub(a[i], b[i])]

VScale(a, s) == [i \in 1..3 |-> FMul(a[i], s)]

VNeg(a) == VScale(a, 0 - 1)

Dot(a, b) == FAdd(FAdd(FMul(a[1], b[1]), FMul(a[2], b[2])), FMul(a[3], b[3]))

Cross(a, b) ==
    << FSub(FMul(a[2], b[3]), FMul(a[3], b[2])),
       FSub(FMul(a[3], b[1]), FMul(a[1], b[3])),
       FSub(FMul(a[1], b[2]), FMul(a[2], b[1])) >>

SquaredNorm(a) == Dot(a, a)

HasNaN(a) == \E i \in 1..3 : IsNaN(a[i])

\* Eigen's normalized(): v / sqrt(z) when z = squaredNorm > 0, else v itself.
\* On the lattice a vector with z > 0 has one non-zero component.
Normalized(a) ==
    IF FGt(SquaredNorm(a), 0)
    THEN [i \in 1..3 |-> FDiv(a[i], ISqrt(SquaredNorm(a)))]
    ELSE a

Identity3 == <<UnitX, UnitY, UnitZ>>

NaNMatrix == <<NaN3, NaN3, NaN3>>

\* M * v, M given by its columns
MatVec(M, v) == VAdd(VAdd(VScale(M[1], v[1]), VScale(M[2], v[2])), VScale(M[3], v[3]))

MatMul(A, B) == [j \in 1..3 |-> MatVec(A, B[j])]

Transform(lin, tr) == [linear |-> lin, translation |-> tr]

IdentityTr == Transform(Identity3, Zero3)

\* T * p for a point
Apply(T, p) == VAdd(MatVec(T.linear, p), T.translation)

\* A * B for affine transforms
Compose(A, B) == Transform(MatMul(A.linear, B.linear), Apply(A, B.translation))

Det(M) == Dot(M[1], Cross(M[2], M[3]))

\* Eigen's 3x3 inverse by cofactors: row i of the inverse is the cross
\* product of the two other columns, divided by the determinant.  The
\* instances and fixes of the scene have determinant 1 or -1.
Inverse3(M) ==
    LET r1 == Cross(M[2], M[3])
        r2 == Cross(M[3], M[1])
        r3 == Cross(M[1], M[2])
        d  == Det(M)
    IN  [j \in 1..3 |-> << FDiv(r1[j], d), FDiv(r2[j], d), FDiv(r3[j], d) >>]

\* Transform3d::inverse() in Affine mode
Inverse(T) ==
    LET li == Inverse3(T.linear)
    IN  Transform(li, VNeg(MatVec(li, T.translation)))

TransformHasNaN(T) == (\E j \in 1..3 : HasNaN(T.linear[j])) \/ HasNaN(T.translation)

(***************************************************************************)
(* Rotations: Eigen::Quaternion::FromTwoVectors and AngleAxis, as the      *)
(* rotation matrices they denote                                           *)
(***************************************************************************)
AxisUnits == {UnitX, VNeg(UnitX), UnitY, VNeg(UnitY), UnitZ, VNeg(UnitZ)}

\* rotation by 90 degrees about the unit axis k: v -> k x v + k (k . v)
Rot90(k) == [j \in 1..3 |-> VAdd(Cross(k, Identity3[j]), VScale(k, Dot(k, Identity3[j])))]

\* rotation by 180 degrees about the unit axis k: v -> 2 k (k . v) - v
Rot180(k) == [j \in 1..3 |-> VSub(VScale(k, 2 * Dot(k, Identity3[j])), Identity3[j])]

\* The rotations FromTwoVectors(a, b) may return.  A NaN operand makes every
\* quaternion coefficient NaN.  For opposite vectors Eigen turns by 180
\* degrees about the axis its SVD picks among those perpendicular to a: any
\* of them.  A zero operand gives c = 0 and a zero axis: the identity.
from_unit_vectors(v0, v1) ==
    IF IsNaN(Dot(v1, v0)) THEN {NaNMatrix}
    ELSE IF Dot(v1, v0) = 0 - 1 THEN {Rot180(k) : k \in {u \in AxisUnits : Dot(u, v0) = 0}}
    ELSE IF Cross(v0, v1) = Zero3 THEN {Identity3}
    ELSE {Rot90(Cross(v0, v1))}

FromTwoVectors(a, b) ==
    UNION {from_unit_vectors(v0, v1) : v0 \in {Normalized(a)}, v1 \in {Normalized(b)}}

\* Eigen::AngleAxisd(q * pi/2, UnitZ)
RotZ(q) ==
    CASE q % 4 = 0 -> Identity3
      [] q % 4 = 1 -> <<UnitY, VNeg(UnitX), UnitZ>>
      [] q % 4 = 2 -> <<VNeg(UnitX), VNeg(UnitY), UnitZ>>
      [] q % 4 = 3 -> <<VNeg(UnitY), UnitX, UnitZ>>

(***************************************************************************)
(* Emboss helpers (libslic3r/Emboss.cpp)                                   *)
(***************************************************************************)
\* an optional value is the empty sequence or a sequence of one element
None == <<>>

Some(v) == <<v>>

HasValue(o) == Len(o) = 1

\* Emboss::suggest_up before its final normalize(), for a normal of any
\* length: side (n.n) - n (n.side), side = |n.z|/|n| > up_limit ? UnitY : UnitZ
suggest_up_dir(n, up_limit) ==
    LET side == IF up_limit.den * up_limit.den * n[3] * n[3]
                    > up_limit.num * up_limit.num * SquaredNorm(n)
                THEN UnitY ELSE UnitZ
    IN  VSub(VScale(side, SquaredNorm(n)), VScale(n, Dot(n, side)))

suggest_up(n, up_limit) ==
    IF HasNaN(n) THEN NaN3
    ELSE CHOOSE up \in {Normalized(d) : d \in {suggest_up_dir(n, up_limit)}} : TRUE

\* Emboss::calc_up: -atan2(det, dot) of the up axis against the suggested up,
\* in quarter turns; no value when the angle is 0
calc_up(tr, up_limit) ==
    LET n   == tr.linear[3]
        s   == suggest_up_dir(n, up_limit)
        up  == tr.linear[2]
        det == Dot(up, Cross(s, n))
        dot == Dot(s, up)
    IN  CASE det = 0 /\ dot >= 0 -> None
          [] det = 0 /\ dot < 0  -> Some(2)
          [] det > 0 /\ dot = 0  -> Some(3)
          [] det < 0 /\ dot = 0  -> Some(1)

\* Emboss::apply_transformation: T * RotZ(angle), then translate along local Z
apply_transformation(angle, distance, T) ==
    LET rotated == IF HasValue(angle)
                   THEN Transform(MatMul(T.linear, RotZ(angle[1])), T.translation)
                   ELSE T
    IN  IF HasValue(distance)
        THEN Transform(rotated.linear,
                       VAdd(rotated.translation, VScale(rotated.linear[3], distance[1])))
        ELSE rotated

(***************************************************************************)
(* The scene: one object with a base part (volume 0) and an embossed text  *)
(* (volume 1, a negative volume), in two instances; scene volume 4 carries *)
(* an object index the model no longer has.                                *)
(***************************************************************************)
GLVolumes == 0..4

object_idx(g) == IF g = 4 THEN 1 ELSE 0

volume_idx(g) == IF g \in {1, 3} THEN 1 ELSE 0

instance_idx(g) == IF g \in {2, 3} THEN 1 ELSE 0

ModelObjects == {0}

ModelVolumes == {0, 1}

volume_type == [v \in ModelVolumes |-> IF v = 0 THEN "MODEL_PART" ELSE "NEGATIVE_VOLUME"]

\* ModelVolume::emboss_shape has a value for the text volume only
has_emboss_shape(v) == v = 1

\* ModelInstance::get_matrix(): instance 1 is turned and moved
instance_matrix(i) ==
    IF i = 0 THEN IdentityTr ELSE Transform(RotZ(1), <<200, 0, 0>>)

\* GLVolume::get_sla_shift_z()
sla_shift_z(g) == IF instance_idx(g) = 1 THEN 100 ELSE 0

\* GLVolume::bounding_box().size().z()
bounding_box_depth(g) == IF g = 3 THEN 200 ELSE 100

\* the fix a 3mf file may have baked into the text volume
Fix3mf == Transform(RotZ(1), <<0, 0, 100>>)

\* the text volume before any drag: its frame (upright; third axis skewed;
\* first two axes collinear, a collapsed volume), whether a fix is baked in,
\* and projection.use_surface
TextPresets ==
    { [frame |-> Identity3, fix_3mf_tr |-> None, use_surface |-> TRUE],
      [frame |-> <<UnitX, UnitY, <<1, 0, 1>>>>, fix_3mf_tr |-> Some(Fix3mf),
       use_surface |-> FALSE],
      [frame |-> <<UnitX, UnitX, UnitZ>>, fix_3mf_tr |-> None, use_surface |-> FALSE] }

\* ModelVolume::is_the_only_one_part(): a MODEL_PART with no other MODEL_PART
is_the_only_one_part(v) ==
    /\ volume_type[v] = "MODEL_PART"
    /\ \A w \in ModelVolumes \ {v} : volume_type[w] # "MODEL_PART"

\* create_condition(): the model parts of the object, the dragged one left out
create_condition(v) ==
    IF Cardinality(ModelVolumes) > 1
    THEN {w \in ModelVolumes : volume_type[w] = "MODEL_PART" /\ w # v}
    ELSE {}

\* CameraUtils::project for the two cameras of the model, looking down Z or
\* along Y
Cameras == {"front"}

project(camera, p) == IF camera = "top" THEN <<p[1], p[2]>> ELSE <<p[1], p[3]>>

V2Sub(a, b) == <<FSub(a[1], b[1]), FSub(a[2], b[2])>>

(***************************************************************************)
(* Inputs of a pointer event                                               *)
(***************************************************************************)
\* wxMouseEvent: the predicates the handler reads are exclusive
Events == {"LeftDown", "LeftUp", "RightDown", "Moving", "Dragging", "Leave"}

MousePositions == {<<100, 0>>}

UpLimits == {None, Some([num |-> 9, den |-> 10])}

\* Selection and GLCanvas3D::get_first_hover_volume_idx() as the canvas may
\* hold them: a selection is a set of scene volumes; hover -1 is no hover,
\* 5 is past the end of the scene volumes
Picks ==
    { <<{}, 0 - 1>>, <<{0, 1}, 1>>, <<{1}, 0 - 1>>, <<{1}, 5>>, <<{1}, 0>>,
      <<{4}, 4>>, <<{0}, 0>>, <<{1}, 1>>, <<{3}, 3>> }

\* what ray_from_camera may return: a position and a normal on the lattice
NoHit == [has_value |-> FALSE]

Hit(p, n) == [has_value |-> TRUE, position |-> p, normal |-> n]

HitPositions == {<<100, 0, 0>>}

HitNormals == {UnitZ, UnitX, VNeg(UnitZ)}

Hits == {Hit(p, n) : p \in HitPositions, n \in HitNormals}

\* what closest_hit may return to calc_distance, as the world offset from
\* the volume origin to the hit
DistanceOffsets == {Zero3, <<0, 0, 0 - 100>>, <<0, 0, 0 - 400>>}

DistanceHits == {NoHit} \cup {[has_value |-> TRUE, p_to_hit |-> o] : o \in DistanceOffsets}

(***************************************************************************)
(* State                                                                   *)
(***************************************************************************)
VARIABLES
    volumes,        \* GLVolume::get_volume_transformation() of every scene volume
    model_tr,       \* ModelVolume::get_matrix() of every model volume
    emboss_shape,   \* the text volume's fix_3mf_tr and projection.use_surface
    selection,      \* the canvas selection
    hover,          \* the canvas' first hovered volume index
    surface_drag,   \* std::optional<SurfaceDrag>
    moving,         \* canvas.enable_moving
    picking,        \* canvas.enable_picking
    raycast,        \* what the raycast manager was last actualized for
    last,           \* the last call of on_mouse_surface_drag: inputs and effects
    drags,          \* the drags started so far
    facings,        \* the turns to the camera made so far
    edits,          \* the selection edits made so far
    folder,         \* the destination folder: the inode every path names
    inodes,         \* the content of every inode: its last writer, and whether a whole body
    downloads,      \* every FileGet: its url, m_filename, stream and place in get_perform
    queue           \* the events queued to the event handler, in order

vars == <<volumes, model_tr, emboss_shape, selection, hover, surface_drag,
          moving, picking, raycast, last, drags, facings, edits, folder, inodes, downloads, queue>>

\* the drags one behaviour may start
MaxDrags == 1

\* the turns to the camera one behaviour may make
MaxFacings == 1

\* the selection edits one behaviour may make
MaxEdits == 1

NoSession == [has_value |-> FALSE]

NotActualized == [has_value |-> FALSE]

\* the record of one call; a field the call did not read or do keeps its default
Call(event, ret) ==
    [event |-> event, ret |-> ret, up_limit |-> None, hit |-> NoHit,
     do_move |-> FALSE, set_as_dirty |-> FALSE, actualize |-> FALSE,
     scale_asserts |-> "not reached", volume_new |-> None,
     world_new_linear |-> None, query |-> None, condition |-> None,
     camera |-> "none"]

NoCall == Call("none", FALSE)

(***************************************************************************)
(* Scene queries                                                           *)
(***************************************************************************)
\* get_selected_gl_volume(): the volume of a selection of exactly one
get_selected_gl_volume(sel) ==
    IF Cardinality(sel) = 1 THEN Some(CHOOSE g \in sel : TRUE) ELSE None

\* get_model_object(): null when the object index is not in the model
get_model_object(g) ==
    IF object_idx(g) \in ModelObjects THEN Some(object_idx(g)) ELSE None

\* GLVolume::world_matrix(): instance * volume, lifted by the SLA shift
world_matrix(vols, g) ==
    LET m == Compose(instance_matrix(instance_idx(g)), vols[g])
    IN  Transform(m.linear,
                  <<m.translation[1], m.translation[2],
                    FAdd(m.translation[3], sla_shift_z(g))>>)

fix_of(es, v) == IF has_emboss_shape(v) THEN es.fix_3mf_tr ELSE None

\* world_matrix_fixed(gl_volume, objects), lines 231-248
world_matrix_fixed(vols, es, g) ==
    LET res == world_matrix(vols, g)
        fix == fix_of(es, volume_idx(g))
    IN  IF get_model_object(g) = None THEN res
        ELSE IF ~HasValue(fix) THEN res
        ELSE Compose(res, Inverse(fix[1]))

\* calc_scale, lines 67-76: no value when the squared norms agree within 1e-3,
\* which on integers is equality and is false of NaN
calc_scale(from, to, dir) ==
    LET from_scale_sq == SquaredNorm(MatVec(from, dir))
        to_scale_sq   == SquaredNorm(MatVec(to, dir))
    IN  IF ~IsNaN(from_scale_sq) /\ ~IsNaN(to_scale_sq) /\ from_scale_sq = to_scale_sq
        THEN None
        ELSE Some(<<from_scale_sq, to_scale_sq>>)

\* surface_distance_sq{1e-4, 10.}, in squares of 0.01 mm
surface_distance_sq_min == 1

surface_distance_sq_max == 100000

\* variant: the far bound excluded from the range
calc_distance_open_range(vols, g, hit_opt) ==
    LET w           == world_matrix(vols, g)
        dir         == VNeg(w.linear[3])
        p_to_hit    == hit_opt.p_to_hit
        distance_sq == SquaredNorm(p_to_hit)
        max_squared_distance ==
            Max(4 * bounding_box_depth(g) * bounding_box_depth(g), surface_distance_sq_max)
        sign        == IF Dot(p_to_hit, dir) > 0 THEN 1 ELSE 0 - 1
    IN  IF ~hit_opt.has_value THEN None
        ELSE IF distance_sq < surface_distance_sq_min THEN None
        ELSE IF distance_sq >= max_squared_distance THEN None
        ELSE Some(sign * ISqrt(distance_sq))

\* variant: an offset square to the emboss direction counted as in front
calc_distance_sign_of_zero(vols, g, hit_opt) ==
    LET w           == world_matrix(vols, g)
        dir         == VNeg(w.linear[3])
        p_to_hit    == hit_opt.p_to_hit
        distance_sq == SquaredNorm(p_to_hit)
        max_squared_distance ==
            Max(4 * bounding_box_depth(g) * bounding_box_depth(g), surface_distance_sq_max)
        sign        == IF Dot(p_to_hit, dir) >= 0 THEN 1 ELSE 0 - 1
    IN  IF ~hit_opt.has_value THEN None
        ELSE IF distance_sq < surface_distance_sq_min THEN None
        ELSE IF distance_sq > max_squared_distance THEN None
        ELSE Some(sign * ISqrt(distance_sq))

\* calc_distance(gl_volume, raycaster, condition), lines 197-229
calc_distance(vols, g, hit_opt) ==
    LET w           == world_matrix(vols, g)
        dir         == VNeg(w.linear[3])
        p_to_hit    == hit_opt.p_to_hit
        distance_sq == SquaredNorm(p_to_hit)
        max_squared_distance ==
            Max(4 * bounding_box_depth(g) * bounding_box_depth(g), surface_distance_sq_max)
        sign        == IF Dot(p_to_hit, dir) > 0 THEN 1 ELSE 0 - 1
    IN  IF ~hit_opt.has_value THEN None
        ELSE IF distance_sq < surface_distance_sq_min THEN None
        ELSE IF distance_sq > max_squared_distance THEN None
        ELSE Some(sign * ISqrt(distance_sq))

(***************************************************************************)
(* start_dragging, lines 411-502                                           *)
(***************************************************************************)
\* the early returns without the one of lines 444-446
start_dragging_declines_no_part_check(sel, hov) ==
    LET gl_volume_ptr == get_selected_gl_volume(sel)
        g             == gl_volume_ptr[1]
    IN  IF gl_volume_ptr = None THEN TRUE
        ELSE IF hov < 0 THEN TRUE
        ELSE IF hov >= Cardinality(GLVolumes) \/ hov # g THEN TRUE
        ELSE get_model_object(g) = None

\* the early returns with any hovered volume taken for the selected one
start_dragging_declines_any_hover(sel, hov) ==
    LET gl_volume_ptr == get_selected_gl_volume(sel)
        g             == gl_volume_ptr[1]
    IN  IF gl_volume_ptr = None THEN TRUE
        ELSE IF hov < 0 THEN TRUE
        ELSE IF hov >= Cardinality(GLVolumes) THEN TRUE
        ELSE IF get_model_object(g) = None THEN TRUE
        ELSE is_the_only_one_part(volume_idx(g))

\* the early returns of lines 418-446: the preconditions of a drag
start_dragging_declines(sel, hov) ==
    LET gl_volume_ptr == get_selected_gl_volume(sel)
        g             == gl_volume_ptr[1]
    IN  IF gl_volume_ptr = None THEN TRUE
        ELSE IF hov < 0 THEN TRUE
        ELSE IF hov >= Cardinality(GLVolumes) \/ hov # g THEN TRUE
        ELSE IF get_model_object(g) = None THEN TRUE
        ELSE is_the_only_one_part(volume_idx(g))

\* a start that builds the condition and does not actualize the raycasters
start_dragging_actualize_skipped(g) == NotActualized

\* lines 448-453: the raycast manager after actualize
start_dragging_actualize(g) ==
    [has_value |-> TRUE, instance |-> instance_idx(g),
     condition |-> create_condition(volume_idx(g))]

\* a start that forgets canvas.enable_picking(false)
start_dragging_flags_picking_left_on == [moving |-> FALSE, picking |-> TRUE]

\* the canvas flags a started drag leaves, lines 499-500
start_dragging_flags == [moving |-> FALSE, picking |-> FALSE]

\* the SurfaceDrag built at lines 455-496
start_dragging_session(vols, mtr, es, g, mouse_pos, camera, up_limit, dist_hit) ==
    LET v         == volume_idx(g)
        inst      == instance_matrix(instance_idx(g))
        fix       == fix_of(es, v)
        condition == create_condition(v)
        to_world  == world_matrix_fixed(vols, es, g)
        mouse_offset == V2Sub(project(camera, to_world.translation), mouse_pos)
        to_world_without_sla_move ==
            IF HasValue(fix)
            THEN Compose(Compose(inst, mtr[v]), fix[1])
            ELSE Compose(inst, mtr[v])
        mouse_offset_without_sla_shift ==
            IF sla_shift_z(g) # 0
            THEN V2Sub(project(camera, to_world_without_sla_move.translation), mouse_pos)
            ELSE mouse_offset
        volume_tr == IF HasValue(fix) THEN Compose(vols[g], Inverse(fix[1])) ELSE vols[g]
        world_tr  == Compose(inst, volume_tr)
        start_angle ==
            IF HasValue(up_limit) THEN calc_up(world_tr, up_limit[1]) ELSE None
        start_distance ==
            IF ~es.use_surface THEN calc_distance(vols, g, dist_hit) ELSE None
    IN  [has_value |-> TRUE,
         mouse_offset |-> mouse_offset,
         world |-> world_tr,
         instance_inv |-> Inverse(inst),
         gl_volume |-> g,
         condition |-> condition,
         start_angle |-> start_angle,
         start_distance |-> start_distance,
         exist_hit |-> TRUE,
         mouse_offset_without_sla_shift |-> mouse_offset_without_sla_shift]

(***************************************************************************)
(* dragging, lines 504-583                                                 *)
(***************************************************************************)
\* variant: the projection not divided by the squared norm of new_z
reset_skew_not_normed(world_linear) ==
    LET old_z == world_linear[3]
        new_z == Cross(world_linear[1], world_linear[2])
        d     == Dot(old_z, new_z)
    IN  <<world_linear[1], world_linear[2], [i \in 1..3 |-> FMul(new_z[i], d)]>>

\* lines 527-529.  world_linear is an Eigen block of surface_drag->world, so
\* the new third column is stored in the session.  new_z * (dot / norm) is
\* computed as (new_z * dot) / norm, which is the same number and exact here.
reset_skew(world_linear) ==
    LET old_z == world_linear[3]
        new_z == Cross(world_linear[1], world_linear[2])
        d     == Dot(old_z, new_z)
        n     == SquaredNorm(new_z)
    IN  <<world_linear[1], world_linear[2],
          [i \in 1..3 |-> FDiv(FMul(new_z[i], d), n)]>>

\* the frame dragging works on after lines 522-530
dragging_world(world) == Transform(reset_skew(world.linear), world.translation)

\* lines 532-548: the linear parts world_new may get
fix_up(world_new_linear, up_limit) ==
    UNION { {MatMul(y_rotation, world_new_linear) :
                y_rotation \in FromTwoVectors(world_new_linear[2], wanted_up)} :
            wanted_up \in {suggest_up(z_world, up_limit[1]) :
                              z_world \in {Normalized(world_new_linear[3])}} }

world_new_linears(world, hit, up_limit) ==
    LET aligned == {MatMul(z_rotation, world.linear) :
                        z_rotation \in FromTwoVectors(world.linear[3], hit.normal)}
    IN  IF HasValue(up_limit)
        THEN UNION {fix_up(world_new_linear, up_limit) : world_new_linear \in aligned}
        ELSE aligned

\* lines 551-552
volume_new_of(instance_inv, hit, world_new_linear) ==
    Transform(MatMul(instance_inv.linear, world_new_linear),
              Apply(instance_inv, hit.position))

\* line 556: the transformation is taken for invalid
is_invalid(volume_new) == FNeq(volume_new.linear[1][1], volume_new.linear[1][1])

\* lines 560-561: both assertions on the scale hold
scale_asserts(world_linear, world_new_linear) ==
    /\ ~HasValue(calc_scale(world_linear, world_new_linear, UnitY))
    /\ ~HasValue(calc_scale(world_linear, world_new_linear, UnitZ))

\* a step that applies the start angle and leaves the start distance out
volume_new_fixed_without_distance(sd, es, volume_new) ==
    LET v   == volume_idx(sd.gl_volume)
        fix == fix_of(es, v)
        fixed == IF HasValue(fix) THEN Compose(volume_new, fix[1]) ELSE volume_new
    IN  IF has_emboss_shape(v)
        THEN apply_transformation(sd.start_angle, None, fixed)
        ELSE volume_new

\* lines 563-572
volume_new_fixed(sd, es, volume_new) ==
    LET v   == volume_idx(sd.gl_volume)
        fix == fix_of(es, v)
        fixed == IF HasValue(fix) THEN Compose(volume_new, fix[1]) ELSE volume_new
    IN  IF has_emboss_shape(v)
        THEN apply_transformation(sd.start_angle, sd.start_distance, fixed)
        ELSE volume_new

\* a loop that compares the object index alone
same_volume_object_only(sd, g) == object_idx(g) = object_idx(sd.gl_volume)

\* lines 575-579: the scene volumes a step writes
same_volume(sd, g) ==
    /\ object_idx(g) = object_idx(sd.gl_volume)
    /\ volume_idx(g) = volume_idx(sd.gl_volume)

update_volumes(vols, sd, volume_new) ==
    [g \in GLVolumes |-> IF same_volume(sd, g) THEN volume_new ELSE vols[g]]

(***************************************************************************)
(* Initial state: no drag, picking and moving enabled, scene and model in  *)
(* step, nothing hovered or selected                                       *)
(***************************************************************************)
InitScene(presets) ==
    /\ \E preset \in presets :
         LET true_tr == Transform(preset.frame, <<0, 0, 100>>)
             text_tr == IF HasValue(preset.fix_3mf_tr)
                        THEN Compose(true_tr, preset.fix_3mf_tr[1])
                        ELSE true_tr
         IN  /\ volumes = [g \in GLVolumes |->
                              IF volume_idx(g) = 1 THEN text_tr ELSE IdentityTr]
             /\ model_tr = [v \in ModelVolumes |-> IF v = 1 THEN text_tr ELSE IdentityTr]
             /\ emboss_shape = [fix_3mf_tr |-> preset.fix_3mf_tr,
                                use_surface |-> preset.use_surface]
    /\ selection = {}
    /\ hover = 0 - 1
    /\ surface_drag = NoSession
    /\ moving = TRUE
    /\ picking = TRUE
    /\ raycast = NotActualized
    /\ last = NoCall
    /\ drags = 0
    /\ facings = 0
    /\ edits = 0

\* FileGet::FileGet, lines 151-154: a download holds its url; nothing runs yet
NoFile == [has_value |-> FALSE]

NewDownload(url) ==
    [pc |-> "get", m_url |-> url, m_filename |-> None, version |-> 0, file |-> NoFile]

\* the content of an inode nothing has written
EmptyFile == [writer |-> 0, whole |-> FALSE]

Downloads == {1, 2}

InitDownloader(urls, folders) ==
    /\ folder \in folders
    /\ inodes = [i \in {0} \cup Downloads |->
                    IF i = 0 THEN [writer |-> 0, whole |-> TRUE] ELSE EmptyFile]
    /\ downloads \in [Downloads -> {NewDownload(url) : url \in urls}]
    /\ queue = <<>>

\* a file name: the part before the extension, and the extension
FileName(stem, ext) == [stem |-> stem, ext |-> ext]

\* a url: the segments a "/" separates, the last one the file name
IdleUrl == <<"host", FileName("a", ".stl")>>

\* the path of a file in the folder; version 0 is the plain name
EmptyFolder == [path \in {} |-> 0]

InitOf(presets) == InitScene(presets) /\ InitDownloader({IdleUrl}, {EmptyFolder})

Init == InitOf(TextPresets)

(***************************************************************************)
(* The canvas picks: selection and hover follow the pointer while picking  *)
(* is enabled                                                              *)
(***************************************************************************)
Pick ==
    /\ picking
    /\ \E pick \in Picks :
         /\ selection' = pick[1]
         /\ hover' = pick[2]
    /\ last' = NoCall
    /\ UNCHANGED <<volumes, model_tr, emboss_shape, surface_drag, moving, picking, raycast, drags, facings, edits, folder, inodes, downloads, queue>>

(***************************************************************************)
(* on_mouse_surface_drag, lines 78-115, one action for each path           *)
(***************************************************************************)
\* an end that reports every termination as a release
end_result_always_true(event) == TRUE

\* line 98: only left up is correct
end_result(event) == event = "LeftUp"

\* GLCanvas3D::do_move: the transformations of the selected scene volumes
\* are written into the model
do_move(vols, mtr, sel) ==
    [v \in ModelVolumes |->
        IF \E g \in sel : get_model_object(g) # None /\ volume_idx(g) = v
        THEN vols[CHOOSE g \in sel : get_model_object(g) # None /\ volume_idx(g) = v]
        ELSE mtr[v]]

\* an end that resets the session and leaves the canvas flags as they are
EndDrag_flags_left_off(event) ==
    /\ surface_drag.has_value
    /\ event # "Dragging"
    /\ model_tr' = do_move(volumes, model_tr, selection)
    /\ surface_drag' = NoSession
    /\ last' = [Call(event, end_result(event)) EXCEPT !.do_move = TRUE]
    /\ UNCHANGED <<volumes, emboss_shape, selection, hover, raycast, drags, facings, edits, folder, inodes, downloads, queue, moving, picking>>

\* an end that keeps the session when the event is a left press
EndDrag_session_kept_on_press(event) ==
    /\ surface_drag.has_value
    /\ event # "Dragging"
    /\ model_tr' = do_move(volumes, model_tr, selection)
    /\ moving' = TRUE
    /\ picking' = TRUE
    /\ surface_drag' = IF event = "LeftDown" THEN surface_drag ELSE NoSession
    /\ last' = [Call(event, end_result(event)) EXCEPT !.do_move = TRUE]
    /\ UNCHANGED <<volumes, emboss_shape, selection, hover, raycast, drags, facings, edits, folder, inodes, downloads, queue>>

\* lines 87-99: a session exists and the event is no drag
EndDrag(event) ==
    /\ surface_drag.has_value
    /\ event # "Dragging"
    /\ model_tr' = do_move(volumes, model_tr, selection)
    /\ moving' = TRUE
    /\ picking' = TRUE
    /\ surface_drag' = NoSession
    /\ last' = [Call(event, end_result(event)) EXCEPT !.do_move = TRUE]
    /\ UNCHANGED <<volumes, emboss_shape, selection, hover, raycast, drags, facings, edits, folder, inodes, downloads, queue>>

\* lines 101-102: a move with no button held
MovingIdle(event) ==
    /\ ~surface_drag.has_value
    /\ event = "Moving"
    /\ last' = Call(event, FALSE)
    /\ UNCHANGED <<volumes, model_tr, emboss_shape, selection, hover, surface_drag,
                   moving, picking, raycast, drags, facings, edits, folder, inodes, downloads, queue>>

\* lines 104-105, start_dragging returning at one of lines 418-446
StartDraggingDeclined(event) ==
    /\ ~surface_drag.has_value
    /\ event = "LeftDown"
    /\ start_dragging_declines(selection, hover)
    /\ last' = Call(event, FALSE)
    /\ UNCHANGED <<volumes, model_tr, emboss_shape, selection, hover, surface_drag,
                   moving, picking, raycast, drags, facings, edits, folder, inodes, downloads, queue>>

\* lines 104-105, start_dragging running to line 501
StartDragging(event, mouse_pos, camera, up_limit, dist_hit) ==
    /\ ~surface_drag.has_value
    /\ event = "LeftDown"
    /\ ~start_dragging_declines(selection, hover)
    /\ drags < MaxDrags
    /\ LET g == get_selected_gl_volume(selection)[1]
       IN  /\ raycast' = start_dragging_actualize(g)
           /\ surface_drag' = start_dragging_session(volumes, model_tr, emboss_shape, g,
                                                     mouse_pos, camera, up_limit, dist_hit)
    /\ moving' = start_dragging_flags.moving
    /\ picking' = start_dragging_flags.picking
    /\ last' = [Call(event, TRUE) EXCEPT
                    !.up_limit = up_limit, !.actualize = TRUE,
                    !.query = IF emboss_shape.use_surface THEN None ELSE Some(raycast'),
                    !.condition =
                        IF emboss_shape.use_surface THEN None
                        ELSE Some(create_condition(
                                 volume_idx(get_selected_gl_volume(selection)[1])))]
    /\ drags' = drags + 1
    /\ UNCHANGED <<volumes, model_tr, emboss_shape, selection, hover, facings, edits, folder, inodes, downloads, queue>>

\* a handler that takes every event without a session for handled
NoSessionEvent_handled(event) ==
    /\ ~surface_drag.has_value
    /\ event \notin {"Moving", "LeftDown"}
    /\ last' = Call(event, TRUE)
    /\ UNCHANGED <<volumes, model_tr, emboss_shape, selection, hover, surface_drag,
                   moving, picking, raycast, drags, facings, edits, folder, inodes, downloads, queue>>

\* lines 108-109: neither a move nor a left press, and no session
NoSessionEvent(event) ==
    /\ ~surface_drag.has_value
    /\ event \notin {"Moving", "LeftDown"}
    /\ last' = Call(event, FALSE)
    /\ UNCHANGED <<volumes, model_tr, emboss_shape, selection, hover, surface_drag,
                   moving, picking, raycast, drags, facings, edits, folder, inodes, downloads, queue>>

\* a step without a hit that writes the scene into the model
DraggingNoHit_commits(event) ==
    /\ surface_drag.has_value
    /\ event = "Dragging"
    /\ surface_drag' = [surface_drag EXCEPT !.exist_hit = FALSE]
    /\ model_tr' = do_move(volumes, model_tr, selection)
    /\ last' = [Call(event, TRUE) EXCEPT !.query = Some(raycast), !.condition = Some(surface_drag.condition), !.set_as_dirty = TRUE, !.do_move = TRUE]
    /\ UNCHANGED <<volumes, emboss_shape, selection, hover, moving, picking,
                   raycast, drags, facings, edits, folder, inodes, downloads, queue>>

\* a step that returns on no hit before it stores exist_hit
DraggingNoHit_flag_not_stored(event) ==
    /\ surface_drag.has_value
    /\ event = "Dragging"
    /\ last' = [Call(event, TRUE) EXCEPT !.query = Some(raycast), !.condition = Some(surface_drag.condition), !.set_as_dirty = TRUE]
    /\ UNCHANGED <<volumes, model_tr, emboss_shape, selection, hover, moving, picking,
                   raycast, drags, facings, edits, folder, inodes, downloads, queue, surface_drag>>

\* a step whose ray query is made without the condition of the session
DraggingNoHit_unfiltered(event) ==
    /\ surface_drag.has_value
    /\ event = "Dragging"
    /\ surface_drag' = [surface_drag EXCEPT !.exist_hit = FALSE]
    /\ last' = [Call(event, TRUE) EXCEPT !.query = Some(raycast), !.set_as_dirty = TRUE]
    /\ UNCHANGED <<volumes, model_tr, emboss_shape, selection, hover, moving, picking,
                   raycast, drags, facings, edits, folder, inodes, downloads, queue>>

\* lines 111-112, dragging returning at line 519: the ray hits nothing
DraggingNoHit(event) ==
    /\ surface_drag.has_value
    /\ event = "Dragging"
    /\ surface_drag' = [surface_drag EXCEPT !.exist_hit = FALSE]
    /\ last' = [Call(event, TRUE) EXCEPT !.query = Some(raycast), !.condition = Some(surface_drag.condition), !.set_as_dirty = TRUE]
    /\ UNCHANGED <<volumes, model_tr, emboss_shape, selection, hover, moving, picking,
                   raycast, drags, facings, edits, folder, inodes, downloads, queue>>

\* a step whose assertions read the frame as the session held it on entry
DraggingHit_asserts_on_entry_frame(event, up_limit, hit) ==
    /\ surface_drag.has_value
    /\ event = "Dragging"
    /\ hit.has_value
    /\ LET world == dragging_world(surface_drag.world)
           sd    == [surface_drag EXCEPT !.exist_hit = TRUE, !.world = world]
       IN  \E world_new_linear \in world_new_linears(world, hit, up_limit) :
             LET volume_new == volume_new_of(sd.instance_inv, hit, world_new_linear)
             IN  /\ surface_drag' = sd
                 /\ IF is_invalid(volume_new)
                    THEN /\ volumes' = volumes
                         /\ last' = [Call(event, TRUE) EXCEPT
                                        !.up_limit = up_limit, !.hit = hit,
                                        !.query = Some(raycast), !.condition = Some(surface_drag.condition),
                                        !.volume_new = Some(volume_new),
                                        !.world_new_linear = Some(world_new_linear)]
                    ELSE /\ volumes' = update_volumes(volumes, sd,
                                          volume_new_fixed(sd, emboss_shape, volume_new))
                         /\ last' = [Call(event, TRUE) EXCEPT
                                        !.up_limit = up_limit, !.hit = hit,
                                        !.query = Some(raycast), !.condition = Some(surface_drag.condition),
                                        !.set_as_dirty = TRUE,
                                        !.volume_new = Some(volume_new),
                                        !.world_new_linear = Some(world_new_linear),
                                        !.scale_asserts =
                                            IF scale_asserts(surface_drag.world.linear,
                                                             world_new_linear)
                                            THEN "hold" ELSE "fail"]
    /\ UNCHANGED <<model_tr, emboss_shape, selection, hover, moving, picking, raycast,
                   drags, facings, edits, folder, inodes, downloads, queue>>

\* lines 111-112, dragging with a hit: returning at line 557 when the new
\* transformation is invalid, else writing it
DraggingHit(event, up_limit, hit) ==
    /\ surface_drag.has_value
    /\ event = "Dragging"
    /\ hit.has_value
    /\ LET world == dragging_world(surface_drag.world)
           sd    == [surface_drag EXCEPT !.exist_hit = TRUE, !.world = world]
       IN  \E world_new_linear \in world_new_linears(world, hit, up_limit) :
             LET volume_new == volume_new_of(sd.instance_inv, hit, world_new_linear)
             IN  /\ surface_drag' = sd
                 /\ IF is_invalid(volume_new)
                    THEN /\ volumes' = volumes
                         /\ last' = [Call(event, TRUE) EXCEPT
                                        !.up_limit = up_limit, !.hit = hit,
                                        !.query = Some(raycast), !.condition = Some(surface_drag.condition),
                                        !.volume_new = Some(volume_new),
                                        !.world_new_linear = Some(world_new_linear)]
                    ELSE /\ volumes' = update_volumes(volumes, sd,
                                          volume_new_fixed(sd, emboss_shape, volume_new))
                         /\ last' = [Call(event, TRUE) EXCEPT
                                        !.up_limit = up_limit, !.hit = hit,
                                        !.query = Some(raycast), !.condition = Some(surface_drag.condition),
                                        !.set_as_dirty = TRUE,
                                        !.volume_new = Some(volume_new),
                                        !.world_new_linear = Some(world_new_linear),
                                        !.scale_asserts =
                                            IF scale_asserts(world.linear, world_new_linear)
                                            THEN "hold" ELSE "fail"]
    /\ UNCHANGED <<model_tr, emboss_shape, selection, hover, moving, picking, raycast,
                   drags, facings, edits, folder, inodes, downloads, queue>>

(***************************************************************************)
(* face_selected_volume_to_camera, lines 290-332.  The cameras look down,  *)
(* up or along Y.  The turn is taken while no drag is on, for a selection  *)
(* whose first volume is in the model (line 330 dereferences the model     *)
(* volume) and whose world frame has orthogonal axes, which keeps the      *)
(* camera direction in volume coordinates on the lattice.                  *)
(***************************************************************************)
FaceCameras == {"top", "bottom", "front"}

\* Camera::get_dir_forward
get_dir_forward(camera) ==
    CASE camera = "top"    -> VNeg(UnitZ)
      [] camera = "bottom" -> UnitZ
      [] OTHER             -> UnitY

\* line 302
emboss_dir == <<0, 0, 0 - 1>>

\* lines 250-258: world_matrix_fixed of a selection
world_matrix_fixed_of_selection(vols, es, sel) ==
    LET gl_volume == get_selected_gl_volume(sel)
    IN  IF gl_volume = None THEN IdentityTr
        ELSE world_matrix_fixed(vols, es, gl_volume[1])

\* lines 298-300: the camera direction in volume coordinates
cam_dir_in_volume(vols, es, sel, camera) ==
    LET to_world == world_matrix_fixed_of_selection(vols, es, sel)
    IN  Normalized(MatVec(Inverse(to_world).linear, get_dir_forward(camera)))

\* line 309: the first volume of the selection
first_selected(sel) == CHOOSE g \in sel : \A h \in sel : g <= h

Translation(v) == Transform(Identity3, v)

\* lines 311-323: AngleAxis(M_PI_2, Y) when the camera looks against the
\* emboss direction, else the quarter turn about emboss_dir x cam_dir_tr
\* (acos of the dot product is a quarter turn on the lattice)
face_rotation(cam_dir_tr) ==
    IF cam_dir_tr = VNeg(emboss_dir)
    THEN Rot90(UnitY)
    ELSE Rot90(Cross(emboss_dir, cam_dir_tr))

\* lines 325-327
face_result(vol_tr, vol_rot) ==
    LET offset     == Apply(vol_tr, Zero3)
        offset_inv == MatVec(Inverse3(vol_rot), offset)
    IN  Compose(Compose(Compose(vol_tr, Translation(VNeg(offset))),
                        Transform(vol_rot, Zero3)),
                Translation(offset_inv))

Orthogonal(M) ==
    /\ \A i \in 1..3 : ~HasNaN(M[i]) /\ M[i] # Zero3
    /\ \A i, j \in 1..3 : i # j => Dot(M[i], M[j]) = 0

FaceEnabled ==
    /\ ~surface_drag.has_value
    /\ selection # {} =>
         /\ get_model_object(first_selected(selection)) # None
         /\ Orthogonal(world_matrix_fixed_of_selection(volumes, emboss_shape,
                                                       selection).linear)

\* lines 294-295 and 305-306: nothing selected, or the volume faces the camera
FaceDeclined(camera) ==
    /\ FaceEnabled
    /\ \/ selection = {}
       \/ cam_dir_in_volume(volumes, emboss_shape, selection, camera) = emboss_dir
    /\ last' = [Call("face", FALSE) EXCEPT !.camera = camera]
    /\ UNCHANGED <<volumes, model_tr, emboss_shape, selection, hover, surface_drag,
                   moving, picking, raycast, drags, facings, edits, folder, inodes, downloads, queue>>

\* lines 308-331: the selected scene volume and its model volume are turned
FaceTurn(camera) ==
    /\ FaceEnabled
    /\ selection # {}
    /\ facings < MaxFacings
    /\ LET cam_dir_tr == cam_dir_in_volume(volumes, emboss_shape, selection, camera)
           gl_volume  == first_selected(selection)
           res        == face_result(volumes[gl_volume], face_rotation(cam_dir_tr))
       IN  /\ cam_dir_tr # emboss_dir
           /\ volumes' = [volumes EXCEPT ![gl_volume] = res]
           /\ model_tr' = [model_tr EXCEPT ![volume_idx(gl_volume)] = res]
    /\ last' = [Call("face", TRUE) EXCEPT !.camera = camera]
    /\ facings' = facings + 1
    /\ UNCHANGED <<emboss_shape, selection, hover, surface_drag, moving, picking,
                   raycast, drags, edits, folder, inodes, downloads, queue>>

face_selected_volume_to_camera ==
    \E camera \in FaceCameras : FaceDeclined(camera) \/ FaceTurn(camera)

\* texts lying on a wall, upside down and turned about Z, with and without
\* a fix
FacePresets ==
    { [frame |-> frame, fix_3mf_tr |-> fix, use_surface |-> TRUE] :
        frame \in {Rot90(UnitX), Rot180(UnitY), RotZ(1)},
        fix \in {None, Some(Fix3mf)} }

InitFace == InitOf(TextPresets \cup FacePresets)

NextFace == Pick \/ face_selected_volume_to_camera

SpecFace == InitFace /\ [][NextFace]_vars

on_mouse_surface_drag ==
    \E event \in Events :
        \/ EndDrag(event)
        \/ MovingIdle(event)
        \/ StartDraggingDeclined(event)
        \/ \E mouse_pos \in MousePositions, camera \in Cameras, up_limit \in UpLimits,
              dist_hit \in DistanceHits :
               StartDragging(event, mouse_pos, camera, up_limit, dist_hit)
        \/ NoSessionEvent(event)
        \/ DraggingNoHit(event)
        \/ \E up_limit \in UpLimits, hit \in Hits : DraggingHit(event, up_limit, hit)

Next == on_mouse_surface_drag \/ Pick

Spec == Init /\ [][Next]_vars

(***************************************************************************)
(* selection_transform, lines 260-288: an edit of the selection run with   *)
(* the fix of the volume taken out of the first selected scene volume      *)
(***************************************************************************)
\* what a closure may do: nothing, turn or move every selected volume
Edits == {IdentityTr, Transform(RotZ(1), Zero3), Transform(Identity3, <<100, 0, 0>>)}

\* the volume argument: null, or a volume of the model
VolumeArgs == {None} \cup {Some(v) : v \in ModelVolumes}

\* selection_transformation_fnc(): the edit applied to every selected volume
selection_transformation_fnc(vols, sel, edit) ==
    [h \in GLVolumes |-> IF h \in sel THEN Compose(vols[h], edit) ELSE vols[h]]

\* lines 266-270: the volume given, else the model volume of the scene volume
volume_of(g, volume_arg) ==
    IF HasValue(volume_arg) THEN volume_arg
    ELSE IF get_model_object(g) = None THEN None
    ELSE Some(volume_idx(g))

\* variant: the fix is not put back after the closure
selection_transform_fix_not_restored(vols, es, sel, volume_arg, edit) ==
    LET g      == first_selected(sel)
        volume == volume_of(g, volume_arg)
        fix_tr == IF HasValue(volume) THEN fix_of(es, volume[1]) ELSE None
        plain   == selection_transformation_fnc(vols, sel, edit)
        unfixed == [vols EXCEPT ![g] = Compose(vols[g], Inverse(fix_tr[1]))]
        ran     == selection_transformation_fnc(unfixed, sel, edit)
    IN  IF ~HasValue(fix_tr)
        THEN [volumes |-> plain, seen |-> vols[g], edited |-> plain[g], runs |-> 1]
        ELSE [volumes |-> ran, seen |-> unfixed[g], edited |-> ran[g], runs |-> 1]

\* selection_transform(selection, selection_transformation_fnc, volume): the
\* scene volumes afterwards, the transform of the first selected volume the
\* closure found and left, and the number of times the closure ran
selection_transform(vols, es, sel, volume_arg, edit) ==
    LET g      == first_selected(sel)
        volume == volume_of(g, volume_arg)
        fix_tr == IF HasValue(volume) THEN fix_of(es, volume[1]) ELSE None
        plain   == selection_transformation_fnc(vols, sel, edit)
        unfixed == [vols EXCEPT ![g] = Compose(vols[g], Inverse(fix_tr[1]))]
        ran     == selection_transformation_fnc(unfixed, sel, edit)
    IN  IF ~HasValue(volume)
        THEN [volumes |-> plain, seen |-> vols[g], edited |-> plain[g], runs |-> 1]
        ELSE IF ~has_emboss_shape(volume[1])
        THEN [volumes |-> plain, seen |-> vols[g], edited |-> plain[g], runs |-> 1]
        ELSE IF ~HasValue(fix_tr)
        THEN [volumes |-> plain, seen |-> vols[g], edited |-> plain[g], runs |-> 1]
        ELSE [volumes |-> [ran EXCEPT ![g] = Compose(ran[g], fix_tr[1])],
              seen |-> unfixed[g], edited |-> ran[g], runs |-> 1]

TransformCall(g, volume_arg, edit, res) ==
    [event |-> "selection_transform", gl_volume |-> g, volume |-> volume_arg,
     edit |-> edit, seen |-> res.seen, edited |-> res.edited, runs |-> res.runs]

\* line 262 reads the first index of the selection: the selection is not empty
SelectionTransform(volume_arg, edit) ==
    /\ selection # {}
    /\ ~surface_drag.has_value
    /\ edits < MaxEdits
    /\ \E res \in {selection_transform(volumes, emboss_shape, selection, volume_arg, edit)} :
         /\ volumes' = res.volumes
         /\ last' = TransformCall(first_selected(selection), volume_arg, edit, res)
    /\ edits' = edits + 1
    /\ UNCHANGED <<model_tr, emboss_shape, selection, hover, surface_drag,
                   moving, picking, raycast, drags, facings, folder, inodes, downloads, queue>>

NextTransform ==
    \/ Pick
    \/ \E volume_arg \in VolumeArgs, edit \in Edits : SelectionTransform(volume_arg, edit)

SpecTransform == Init /\ [][NextTransform]_vars

(***************************************************************************)
(* The skew removal of lines 522-530 on its own, on frames whose           *)
(* projection is exact on the lattice                                      *)
(***************************************************************************)
SkewCoordinates == {0 - 1, 0, 1}

SkewFirstAxes == {UnitX, <<2, 0, 0>>, <<1, 0, 1>>}

SkewSecondAxes == {UnitY, UnitX, <<1, 1, 0>>, <<0, 0, 2>>}

\* new_z * (old_z . new_z) / |new_z|^2 is a vector of integers, or 0/0
ExactProjection(frame) ==
    LET new_z == Cross(frame[1], frame[2])
        d     == Dot(frame[3], new_z)
        n     == SquaredNorm(new_z)
    IN  n = 0 \/ \A i \in 1..3 : (new_z[i] * d) % n = 0

SkewFrames ==
    {frame \in {<<a, b, <<x, y, z>>>> : a \in SkewFirstAxes, b \in SkewSecondAxes,
                                        x \in SkewCoordinates, y \in SkewCoordinates,
                                        z \in SkewCoordinates} :
        ExactProjection(frame)}

SkewCall(frame, once, twice) ==
    [event |-> "reset_skew", world_linear |-> frame, once |-> once, twice |-> twice]

\* the block run on a frame, and run again on what it stored
ResetSkew ==
    \E frame \in SkewFrames :
        /\ \E once \in {reset_skew(frame)} :
              last' = SkewCall(frame, once, reset_skew(once))
        /\ UNCHANGED <<volumes, model_tr, emboss_shape, selection, hover, surface_drag,
                       moving, picking, raycast, drags, facings, edits, folder, inodes, downloads, queue>>

SpecSkew == Init /\ [][ResetSkew]_vars

(***************************************************************************)
(* FileGet, src/downloader/FileGet.cpp: two downloads of one process, each *)
(* on its own thread (lines 165-177), into one destination folder.  The   *)
(* folder follows POSIX: a path names an inode, an open stream keeps its   *)
(* inode, rename replaces the destination.  escape_url is left out: the    *)
(* urls of the model hold nothing escaped.                                 *)
(***************************************************************************)
scene_vars == <<volumes, model_tr, emboss_shape, selection, hover, surface_drag,
                moving, picking, raycast, last, drags, facings, edits>>

Urls == {<<"host", FileName("a", ".stl")>>, <<"mirror", FileName("a", ".stl")>>,
         <<"host", FileName("b", ".stl")>>}

\* lines 27-34: what follows the last "/"
filename_from_url(url) == url[Len(url)]

\* the versions the loop of lines 115-119 may count to
MaxVersion == 3

\* m_dest_folder / (final_filename + extension), lines 115-123
dest_path(name, version) == [stem |-> name.stem, version |-> version, ext |-> name.ext,
                             download |-> FALSE]

\* line 122: the name, the process id and ".download"; one process, one id
tmp_path(name, version) == [stem |-> name.stem, version |-> version, ext |-> name.ext,
                            download |-> TRUE]

\* the folder before the downloads: empty, or holding the plain name already
Folders == {EmptyFolder,
            [path \in {dest_path(FileName("a", ".stl"), 0)} |-> 0]}

Event(type, id, string) == [type |-> type, id |-> id, string |-> string]

\* lines 95-100: the request failed
on_error(d) ==
    /\ downloads[d].pc = "get"
    /\ queue' = Append(queue, Event("EVT_FILE_ERROR", d, "error"))
    /\ downloads' = [downloads EXCEPT ![d].pc = "done"]
    /\ UNCHANGED <<folder, inodes>>
    /\ UNCHANGED scene_vars

\* lines 74-82, 101-114: the body has arrived; m_filename is the name in the url
on_complete(d) ==
    /\ downloads[d].pc = "get"
    /\ downloads' = [downloads EXCEPT ![d].pc = "exists",
                                       ![d].m_filename = Some(filename_from_url(downloads[d].m_url)),
                                       ![d].version = 0]
    /\ UNCHANGED <<folder, inodes, queue>>
    /\ UNCHANGED scene_vars

\* lines 115-120: one test of boost::filesystem::exists
exists_loop(d) ==
    /\ downloads[d].pc = "exists"
    /\ IF dest_path(downloads[d].m_filename[1], downloads[d].version) \in DOMAIN folder
       THEN /\ downloads[d].version < MaxVersion
            /\ downloads' = [downloads EXCEPT ![d].version = downloads[d].version + 1]
       ELSE downloads' = [downloads EXCEPT ![d].pc = "open"]
    /\ UNCHANGED <<folder, inodes, queue>>
    /\ UNCHANGED scene_vars

\* line 126: the stream opened with trunc at tmp_path.  The stream has no
\* exception mask: an open that fails leaves a stream that is not open.
open_file(d, ok) ==
    /\ downloads[d].pc = "open"
    /\ LET tmp == tmp_path(downloads[d].m_filename[1], downloads[d].version)
       IN  IF ~ok
           THEN /\ downloads' = [downloads EXCEPT ![d].pc = "write", ![d].file = NoFile]
                /\ UNCHANGED <<folder, inodes>>
           ELSE IF tmp \in DOMAIN folder
           THEN /\ inodes' = [inodes EXCEPT ![folder[tmp]] = [writer |-> d, whole |-> FALSE]]
                /\ downloads' = [downloads EXCEPT ![d].pc = "write",
                                    ![d].file = [has_value |-> TRUE, inode |-> folder[tmp]]]
                /\ UNCHANGED folder
           ELSE /\ folder' = [path \in DOMAIN folder \cup {tmp} |->
                                 IF path = tmp THEN d ELSE folder[path]]
                /\ inodes' = [inodes EXCEPT ![d] = [writer |-> d, whole |-> FALSE]]
                /\ downloads' = [downloads EXCEPT ![d].pc = "write",
                                    ![d].file = [has_value |-> TRUE, inode |-> d]]
    /\ UNCHANGED queue
    /\ UNCHANGED scene_vars

\* lines 127-128: write and close.  A write that fails sets the state of the
\* stream and throws nothing; a stream that is not open writes nothing.
write_file(d, ok) ==
    /\ downloads[d].pc = "write"
    /\ IF downloads[d].file.has_value /\ ok
       THEN inodes' = [inodes EXCEPT ![downloads[d].file.inode] = [writer |-> d, whole |-> TRUE]]
       ELSE UNCHANGED inodes
    /\ downloads' = [downloads EXCEPT ![d].pc = "rename", ![d].file = NoFile]
    /\ UNCHANGED <<folder, queue>>
    /\ UNCHANGED scene_vars

\* lines 129-145: rename, which throws when tmp_path is gone or the move
\* fails; the error event of the catch, else the completion event
rename_file(d, ok) ==
    /\ downloads[d].pc = "rename"
    /\ LET name == downloads[d].m_filename[1]
           tmp  == tmp_path(name, downloads[d].version)
           dest == dest_path(name, downloads[d].version)
       IN  IF ok /\ tmp \in DOMAIN folder
           THEN /\ folder' = [path \in (DOMAIN folder \ {tmp}) \cup {dest} |->
                                 IF path = dest THEN folder[tmp] ELSE folder[path]]
                /\ queue' = Append(queue, Event("EVT_FILE_COMPLETE", d, dest))
           ELSE /\ UNCHANGED folder
                /\ queue' = Append(queue, Event("EVT_FILE_ERROR", d, "Failed to write and move."))
    /\ downloads' = [downloads EXCEPT ![d].pc = "done"]
    /\ UNCHANGED inodes
    /\ UNCHANGED scene_vars

\* FileGet::priv::get_perform, lines 74-149, one step of one download
get_perform(d) ==
    \/ on_error(d)
    \/ on_complete(d)
    \/ exists_loop(d)
    \/ \E ok \in BOOLEAN : open_file(d, ok)
    \/ \E ok \in BOOLEAN : write_file(d, ok)
    \/ \E ok \in BOOLEAN : rename_file(d, ok)

InitFileGet == InitScene(TextPresets) /\ InitDownloader(Urls, Folders)

NextFileGet == \E d \in Downloads : get_perform(d)

SpecFileGet == InitFileGet /\ [][NextFileGet]_vars

(***************************************************************************)
(* calc_distance on its own: every text volume of the scene, offsets of    *)
(* the hit around both bounds of the accepted range                         *)
(***************************************************************************)
ProbeDepths == {0 - 401, 0 - 400, 0 - 317, 0 - 316, 0 - 100, 0 - 1, 0,
                1, 100, 316, 317, 400, 401}

ProbeOffsets ==
    {<<0, 0, z>> : z \in ProbeDepths}
        \cup {<<30, 40, 0>>, <<0, 30, 40>>, <<0, 30, 0 - 40>>, <<300, 400, 0>>,
              <<1, 0, 0>>, <<0, 0 - 1, 0>>, <<240, 0, 0 - 320>>, <<240, 0, 320>>}

TextVolumes == {g \in GLVolumes : volume_idx(g) = 1 /\ object_idx(g) = 0}

DistanceCall(g, hit_opt, result) ==
    [event |-> "calc_distance", gl_volume |-> g, hit |-> hit_opt, result |-> result]

CalcDistance ==
    \E g \in TextVolumes, hit_opt \in {NoHit} \cup {[has_value |-> TRUE, p_to_hit |-> o] : o \in ProbeOffsets} :
        /\ last' = DistanceCall(g, hit_opt, calc_distance(volumes, g, hit_opt))
        /\ UNCHANGED <<volumes, model_tr, emboss_shape, selection, hover, surface_drag,
                       moving, picking, raycast, drags, facings, edits, folder, inodes, downloads, queue>>

SpecDistance == Init /\ [][CalcDistance]_vars

(***************************************************************************)
(* The drag session and the canvas flags                                   *)
(***************************************************************************)
\* C1: in every reachable state, while the drag session has a value canvas
\* moving and canvas picking are both disabled, and once on_mouse_surface_drag
\* has ended the session both are enabled again.
C1_FlagsFollowSession ==
    /\ surface_drag.has_value => ~moving /\ ~picking
    /\ last.do_move => ~surface_drag.has_value /\ moving /\ picking

\* a session has been started, dragged and ended
C1_Witness ==
    /\ last.do_move
    /\ ~surface_drag.has_value
    /\ moving /\ picking

\* the events that end a session without being a left release
OtherEndEvents == {"LeftDown", "RightDown", "Moving", "Leave"}

\* the model holds the transformation the scene shows for the dragged volume
Committed(sd) == model_tr'[volume_idx(sd.gl_volume)] = volumes[sd.gl_volume]

\* C2, as stated: when a session exists and the terminating event is not a
\* left-button release, on_mouse_surface_drag does not commit (canvas.do_move
\* is not invoked, the model keeps its transformations) and returns false.
C2_NoCommitOnOtherEnd ==
    [][(surface_drag.has_value /\ last'.event \in OtherEndEvents)
         => (~last'.do_move /\ model_tr' = model_tr /\ ~last'.ret)]_vars

\* C2, amended: when a session exists and the terminating event is not a
\* left-button release, on_mouse_surface_drag still commits through
\* canvas.do_move, ends the session, re-enables moving and picking, and
\* returns false.
C2_CommitOnOtherEnd ==
    [][(surface_drag.has_value /\ last'.event \in OtherEndEvents)
         => (/\ last'.do_move
             /\ Committed(surface_drag)
             /\ ~surface_drag'.has_value
             /\ moving' /\ picking'
             /\ ~last'.ret)]_vars

\* a session that dragged the volume has been ended by a right click
C2_Witness ==
    /\ last.event = "RightDown"
    /\ last.do_move
    /\ ~last.ret
    /\ model_tr[1] = volumes[3]
    /\ drags > 0

\* C3: when a session exists and a left-button release arrives,
\* on_mouse_surface_drag commits the transformation into the model through
\* canvas.do_move, re-enables moving and picking, resets the session and
\* returns true.
C3_LeftUpCommits ==
    [][(surface_drag.has_value /\ last'.event = "LeftUp")
         => (/\ last'.do_move
             /\ Committed(surface_drag)
             /\ moving' /\ picking'
             /\ surface_drag' = NoSession
             /\ last'.ret)]_vars

\* a session has been ended by a left release
C3_Witness ==
    /\ last.event = "LeftUp"
    /\ last.do_move
    /\ last.ret
    /\ surface_drag = NoSession
    /\ drags > 0

(***************************************************************************)
(* Declined starts                                                         *)
(***************************************************************************)
\* the selection is one volume of the model that is the only part of its object
SelectedIsOnlyPart ==
    /\ get_selected_gl_volume(selection) # None
    /\ \A g \in selection :
         /\ get_model_object(g) # None
         /\ is_the_only_one_part(volume_idx(g))

\* C4: for every left-button press with no session whose selected volume is
\* the only part of its object, start_dragging returns false and no session
\* is created, whatever is hovered.
C4_OnlyPartDeclined ==
    [][(~surface_drag.has_value /\ last'.event = "LeftDown" /\ SelectedIsOnlyPart)
         => (~last'.ret /\ ~surface_drag'.has_value)]_vars

\* a left press on the hovered, selected, only part has been declined
C4_Witness ==
    /\ last.event = "LeftDown"
    /\ ~last.ret
    /\ SelectedIsOnlyPart
    /\ hover \in selection


\* a start precondition is unmet: no single selected volume, nothing hovered
\* or not the selected volume, the object not in the model, or the only part
PreconditionUnmet ==
    \/ Cardinality(selection) # 1
    \/ hover \notin GLVolumes
    \/ hover \notin selection
    \/ \E g \in selection : object_idx(g) \notin ModelObjects
    \/ SelectedIsOnlyPart

C6_NoHitKeepsTransform ==
    [][(surface_drag.has_value /\ last'.event = "Dragging" /\ ~last'.hit.has_value)
         => (/\ surface_drag'.has_value
             /\ ~surface_drag'.exist_hit
             /\ last'.set_as_dirty
             /\ last'.ret
             /\ volumes' = volumes)]_vars

\* a step without a hit after a step that moved the volume
C6_Witness ==
    /\ last.event = "Dragging"
    /\ ~last.hit.has_value
    /\ surface_drag.has_value
    /\ ~surface_drag.exist_hit
    /\ volumes[surface_drag.gl_volume] # model_tr[volume_idx(surface_drag.gl_volume)]

\* the transformation a step computed has an entry that is not a number
ComputedNonFinite(call) ==
    /\ call.event = "Dragging"
    /\ HasValue(call.volume_new)
    /\ TransformHasNaN(call.volume_new[1])

\* C7: if the transformation computed by a drag step has a non-finite entry
\* in any position, the step is discarded: no scene volume transformation is
\* written and the session stays alive.
C7_NonFiniteDiscarded ==
    [][(surface_drag.has_value /\ ComputedNonFinite(last'))
         => (volumes' = volumes /\ surface_drag'.has_value)]_vars

\* the scene volumes of the dragged (object, volume)
SameIdentity(g, h) == object_idx(g) = object_idx(h) /\ volume_idx(g) = volume_idx(h)

\* the step had a hit and its result passed the test of line 556
ValidStep(call) ==
    /\ call.event = "Dragging"
    /\ call.hit.has_value
    /\ HasValue(call.volume_new)
    /\ ~IsNaN(call.volume_new[1].linear[1][1])

\* C8: after every drag step with a hit and a valid result, every scene
\* volume with the object and volume index of the dragged one holds the same
\* new transformation, and every other scene volume keeps its own.
C8_AllInstancesWritten ==
    [][(surface_drag.has_value /\ ValidStep(last'))
         => \A g \in GLVolumes :
              IF SameIdentity(g, surface_drag.gl_volume)
              THEN volumes'[g] = volumes'[surface_drag.gl_volume]
              ELSE volumes'[g] = volumes[g]]_vars

\* a valid step has moved both instances of the text volume
C8_Witness ==
    /\ ValidStep(last)
    /\ surface_drag.has_value
    /\ volumes[1] = volumes[3]
    /\ volumes[1] # model_tr[1]
    /\ volumes[0] = IdentityTr

\* C9: a move with no button held while idle, and a drag event with no
\* session, are no-ops: on_mouse_surface_drag returns false, creates no
\* session and changes neither the picking and moving flags, the raycast
\* service nor any volume transformation.
C9_IdleEventsAreNoOps ==
    [][(~surface_drag.has_value /\ last'.event \in {"Moving", "Dragging"})
         => (/\ ~last'.ret
             /\ UNCHANGED <<surface_drag, moving, picking, raycast, volumes, model_tr>>)]_vars

\* a drag event has arrived with a draggable volume picked and no session
C9_Witness ==
    /\ last.event = "Dragging"
    /\ ~last.ret
    /\ ~surface_drag.has_value
    /\ selection = {3} /\ hover = 3

\* C10: for every drag step with a hit and every frame the session holds,
\* skewed third axis included, the norms of the world linear part applied to
\* the Y and to the Z axis are the same before and after the step: the two
\* calc_scale assertions of dragging never fail.
C10_ScaleAssertsHold == last.scale_asserts # "fail"

\* the assertions held on a step of a text whose stored third axis is skewed
C10_Witness ==
    /\ last.scale_asserts = "hold"
    /\ \E i \in 1..2 : Dot(model_tr[1].linear[i], model_tr[1].linear[3]) # 0
    /\ Dot(model_tr[1].linear[1], model_tr[1].linear[2]) = 0

\* two vectors point in the same direction
SameDirection(a, b) == Cross(a, b) = Zero3 /\ Dot(a, b) > 0

WithFix(T) ==
    IF HasValue(emboss_shape.fix_3mf_tr) THEN Compose(T, emboss_shape.fix_3mf_tr[1]) ELSE T

\* C12: no drag step changes the twist angle and the signed surface distance
\* recorded at the start of the session, and every step with a hit and a
\* valid result applies exactly those start values to the new transformation.
C12_StartValuesKept ==
    [][(surface_drag.has_value /\ last'.event = "Dragging")
         => (/\ surface_drag'.start_angle = surface_drag.start_angle
             /\ surface_drag'.start_distance = surface_drag.start_distance
             /\ ValidStep(last')
                  => volumes'[surface_drag.gl_volume]
                       = apply_transformation(surface_drag.start_angle,
                                              surface_drag.start_distance,
                                              WithFix(last'.volume_new[1])))]_vars

\* a valid step of a session that recorded both an angle and a distance
C12_Witness ==
    /\ ValidStep(last)
    /\ surface_drag.has_value
    /\ HasValue(surface_drag.start_angle)
    /\ HasValue(surface_drag.start_distance)
    /\ volumes[surface_drag.gl_volume] # WithFix(last.volume_new[1])

\* C13: over any sequence of pointer events canvas.do_move is invoked only on
\* the transition that destroys the session, hence at most once for each
\* session: never at the start of a session, never in a drag step and never
\* without a session; and the model changes on no other transition.
C13_CommitOnlyOnEnd ==
    [][/\ last'.do_move <=> (surface_drag.has_value /\ ~surface_drag'.has_value)
       /\ (last'.event \in Events /\ model_tr' # model_tr) => last'.do_move]_vars

\* a session has been started, has moved the volume and was ended by a plain
\* move, which wrote the model
C13_Witness ==
    /\ last.event = "Moving"
    /\ last.do_move
    /\ ~surface_drag.has_value
    /\ drags = 1
    /\ model_tr[1] = volumes[1]
    /\ model_tr[1].translation = <<100, 0, 0>>

\* the raycast service is actualized for the instance and the exclusion
\* filter of scene volume g
ActualizedFor(service, g) ==
    /\ service.has_value
    /\ service.instance = instance_idx(g)
    /\ service.condition = create_condition(volume_idx(g))

\* C14: every ray or closest-point query of the drag controller meets a
\* raycast service actualized for the dragged volume's instance and
\* exclusion filter: start_dragging queries the distance after its
\* actualize, and dragging queries only within a session such a start made.
C14_QueriesAfterActualize ==
    /\ HasValue(last.query) =>
         /\ surface_drag.has_value
         /\ ActualizedFor(last.query[1], surface_drag.gl_volume)
    /\ surface_drag.has_value =>
         /\ ActualizedFor(raycast, surface_drag.gl_volume)
         /\ surface_drag.condition = raycast.condition

\* a drag step has queried the ray within a session on the second instance
C14_Witness ==
    /\ last.event = "Dragging"
    /\ HasValue(last.query)
    /\ surface_drag.has_value
    /\ instance_idx(surface_drag.gl_volume) = 1
    /\ last.query[1].instance = 1

(***************************************************************************)
(* Turning the selected volume to the camera                               *)
(***************************************************************************)
\* the emboss axis of the one selected volume points along the camera
FacesCamera(vols, camera) ==
    SameDirection(MatVec(world_matrix_fixed_of_selection(vols, emboss_shape,
                                                         selection).linear,
                         emboss_dir),
                  get_dir_forward(camera))

\* C15: after face_selected_volume_to_camera returns true the emboss axis of
\* the selected volume points along the camera direction, also when the
\* camera looked exactly against it before; so a call repeated at once
\* returns false and changes no volume.
C15_FacesCameraAfterTurn ==
    [][(last'.event = "face" /\ Cardinality(selection) = 1)
         => (/\ last'.ret => FacesCamera(volumes', last'.camera)
             /\ (last.event = "face" /\ last.ret /\ last'.camera = last.camera)
                  => (~last'.ret /\ volumes' = volumes))]_vars

\* offset of the hit and the accepted range of one calc_distance call
DistanceSq(call) == SquaredNorm(call.hit.p_to_hit)

MaxSquaredDistance(call) ==
    Max(4 * bounding_box_depth(call.gl_volume) * bounding_box_depth(call.gl_volume),
        surface_distance_sq_max)

DistanceQueried == last.event = "calc_distance" /\ last.hit.has_value

\* C16: calc_distance returns no value when the squared distance of the hit is
\* below 1e-4 or above max(4 * depth^2, 10.0), and a value for every squared
\* distance inside the closed range between the two bounds.
C16_DistanceRange ==
    DistanceQueried =>
        (HasValue(last.result) <=>
            (/\ DistanceSq(last) >= surface_distance_sq_min
             /\ DistanceSq(last) <= MaxSquaredDistance(last)))

\* both bounds met exactly, under either arm of the max, and both sides left
C16_Witness ==
    /\ DistanceQueried
    /\ HasValue(last.result)
    /\ DistanceSq(last) = MaxSquaredDistance(last)
    /\ MaxSquaredDistance(last) > surface_distance_sq_max

\* C17: the value of calc_distance has the length of the offset as magnitude
\* and is positive exactly when the offset has a positive dot product with the
\* emboss direction of the volume; a zero dot product gives a negative value.
C17_DistanceSign ==
    (DistanceQueried /\ HasValue(last.result)) =>
        LET dir == VNeg(world_matrix(volumes, last.gl_volume).linear[3])
        IN  /\ last.result[1] * last.result[1] = DistanceSq(last)
            /\ last.result[1] # 0
            /\ (last.result[1] > 0) <=> (Dot(last.hit.p_to_hit, dir) > 0)

\* an offset square to the emboss direction gives a negative distance
C17_Witness ==
    /\ DistanceQueried
    /\ HasValue(last.result)
    /\ Dot(last.hit.p_to_hit, VNeg(world_matrix(volumes, last.gl_volume).linear[3])) = 0
    /\ last.result[1] < 0

\* the fix carried by the volume a selection_transform call is about
CarriedFix(call) ==
    LET volume == IF HasValue(call.volume) THEN call.volume
                  ELSE IF object_idx(call.gl_volume) \in ModelObjects
                  THEN Some(volume_idx(call.gl_volume)) ELSE None
    IN  IF HasValue(volume) /\ volume[1] = 1 THEN emboss_shape.fix_3mf_tr ELSE None

\* C18: selection_transform runs the closure exactly once in every branch; with
\* a fix F on the volume the closure finds the volume transform T * F^-1 and the
\* stored result is (edited transform) * F, so a closure that changes nothing
\* leaves T; without a fix the closure runs on the transform as it is.
C18_FixAroundClosure ==
    [][last'.event = "selection_transform" =>
          LET g == last'.gl_volume
              F == CarriedFix(last')
              T == volumes[g]
          IN  /\ last'.runs = 1
              /\ HasValue(F) =>
                    /\ last'.seen = Compose(T, Inverse(F[1]))
                    /\ volumes'[g] = Compose(last'.edited, F[1])
              /\ ~HasValue(F) =>
                    /\ last'.seen = T
                    /\ volumes'[g] = last'.edited
              /\ last'.edit = IdentityTr => volumes'[g] = T
              /\ last'.edited = Compose(last'.seen, last'.edit)]_vars

\* a turn made on a volume with a fix: closure saw another transform than the
\* stored one, and the stored result is not what the closure left
C18_Witness ==
    /\ last.event = "selection_transform"
    /\ HasValue(CarriedFix(last))
    /\ last.edit # IdentityTr
    /\ last.runs = 1
    /\ volumes[last.gl_volume] = Compose(last.edited, CarriedFix(last)[1])
    /\ volumes[last.gl_volume] # last.edited

\* C19: the skew removal of a drag step is idempotent and leaves the first two
\* columns as they are: run on its own result it gives the same linear part.
C19_SkewRemovalIdempotent ==
    last.event = "reset_skew" =>
        /\ last.once[1] = last.world_linear[1]
        /\ last.once[2] = last.world_linear[2]
        /\ last.twice = last.once

\* a skewed and scaled frame: the removal changed the third column
C19_Witness ==
    /\ last.event = "reset_skew"
    /\ last.once # last.world_linear
    /\ ~HasNaN(last.once[3])
    /\ last.once[3] # Zero3
    /\ SquaredNorm(Cross(last.world_linear[1], last.world_linear[2])) > 1
    /\ last.twice = last.once

\* C20: after face_selected_volume_to_camera has changed the transform of the
\* selected volume, every scene volume of the same object and volume (the
\* copies in the other instances) holds the same transform as the selected one.
C20_FacedCopiesInStep ==
    [][(last'.event = "face" /\ last'.ret /\ volumes' # volumes) =>
          \A g \in selection', h \in GLVolumes :
              SameIdentity(g, h) => volumes'[h] = volumes'[g]]_vars

SessionIdentity(sd) ==
    <<sd.gl_volume, sd.condition, sd.mouse_offset, sd.mouse_offset_without_sla_shift,
      sd.instance_inv, sd.start_angle, sd.start_distance>>

\* C23: an event that is no drag (left press, left release, right click, plain
\* move, leave) met by a session ends the session in the same call, so
\* start_dragging never runs while a session exists and a session is never
\* replaced by a new one.
C23_NonDragEndsSession ==
    [][surface_drag.has_value =>
          /\ last'.event \in Events \ {"Dragging"} =>
                /\ ~surface_drag'.has_value
                /\ ~last'.actualize
                /\ raycast' = raycast
          /\ surface_drag'.has_value =>
                /\ last'.event = "Dragging"
                /\ SessionIdentity(surface_drag') = SessionIdentity(surface_drag)]_vars

\* a left press met a session: the session is gone and nothing was started
C23_Witness ==
    /\ last.event = "LeftDown"
    /\ last.do_move
    /\ ~last.actualize
    /\ ~surface_drag.has_value
    /\ raycast.has_value
    /\ ~start_dragging_declines(selection, hover)

\* C24: a drag step changes no field of the session but exist_hit: the world
\* frame, the inverse instance transformation, the mouse offsets, the dragged
\* volume, the exclusion filter, the start angle and the start distance stay
\* as start_dragging stored them, whatever the number of steps.
C24_StepKeepsSession ==
    [][(surface_drag.has_value /\ last'.event = "Dragging") =>
          /\ surface_drag'.has_value
          /\ surface_drag'.world = surface_drag.world
          /\ SessionIdentity(surface_drag') = SessionIdentity(surface_drag)]_vars

\* the events of one kind queued for a download
EventsOf(q, d, type) == {i \in 1..Len(q) : q[i].id = d /\ q[i].type = type}

\* the path holds a whole body, written by the download
HoldsBodyOf(dir, nodes, path, d) ==
    /\ path \in DOMAIN dir
    /\ nodes[dir[path]] = [writer |-> d, whole |-> TRUE]

\* C22: a download queues EVT_FILE_COMPLETE, with its id and the destination
\* path, only after its body was written and renamed to that path; when the
\* write or the rename throws it queues exactly one EVT_FILE_ERROR with its id
\* and no completion.
C22_CompleteAfterWritten ==
    [][\A d \in Downloads :
          /\ EventsOf(queue', d, "EVT_FILE_COMPLETE") # EventsOf(queue, d, "EVT_FILE_COMPLETE") =>
                HoldsBodyOf(folder', inodes', queue'[Len(queue')].string, d)
          /\ Cardinality(EventsOf(queue', d, "EVT_FILE_COMPLETE")) +
                Cardinality(EventsOf(queue', d, "EVT_FILE_ERROR")) <= 1
          /\ (downloads[d].pc = "rename" /\ downloads'[d].pc = "done") =>
                Cardinality(EventsOf(queue', d, "EVT_FILE_COMPLETE")) +
                  Cardinality(EventsOf(queue', d, "EVT_FILE_ERROR")) = 1]_vars

\* C25: two downloads of one process whose urls give the same file name, run
\* at once into one folder: under every interleaving the downloads that
\* report completion report different destination paths, and no download
\* overwrites the temporary or the final file of the other.
C25_DownloadsKeepApart ==
    [][filename_from_url(downloads[1].m_url) = filename_from_url(downloads[2].m_url) =>
          /\ \A i \in EventsOf(queue', 1, "EVT_FILE_COMPLETE"),
                j \in EventsOf(queue', 2, "EVT_FILE_COMPLETE") :
                    queue'[i].string # queue'[j].string
          /\ \A d \in Downloads :
                downloads'[d] # downloads[d] =>
                    \A path \in DOMAIN folder :
                        folder[path] \in Downloads \ {d} =>
                            /\ path \in DOMAIN folder'
                            /\ folder'[path] = folder[path]
                            /\ inodes'[folder[path]] = inodes[folder[path]]]_vars

(***************************************************************************)
(* Ray hits whose position is not a number                                 *)
(***************************************************************************)
NonFiniteHits == {Hit(<<0, NaN, 0>>, n) : n \in HitNormals}

DraggingNonFiniteHit ==
    \E event \in Events, up_limit \in UpLimits, hit \in NonFiniteHits :
        DraggingHit(event, up_limit, hit)

NextNonFinite == Next \/ DraggingNonFiniteHit

SpecNonFinite == Init /\ [][NextNonFinite]_vars

====
